---- MODULE Spec2Model ----
(***************************************************************************)
(* C-2DMatrix (matrix.h): a row-major matrix of doubles with elementwise   *)
(* arithmetic, matrix multiplication and an in-place transpose.            *)
(*                                                                         *)
(* Machine model.  The library is built by build_test.sh with gcc for an   *)
(* LP64 target: size_t is SizeBytes bytes, int is IntBytes bytes.  A       *)
(* size_t value is held as its SizeBytes bytes, least significant first,   *)
(* so that values up to 2^64-1 and their wrap-around can be computed; an   *)
(* int is held as its IntBytes two's-complement bytes.  Loop counters and  *)
(* buffer indices, which never leave the modelled buffers, are naturals.   *)
(* A double is modelled by an integer (no rounding, NaN or infinity).      *)
(* Memory is a heap of buffers addressed by pointer; NULL is pointer 0.    *)
(***************************************************************************)
EXTENDS Integers, Sequences, FiniteSets, TLC

VARIABLES
    ndebug,  \* build configuration: TRUE when NDEBUG is defined (assert is a no-op)
    heap,    \* pointer -> buffer (a function 0..n-1 -> double) or Freed
    m,       \* the matrix struct that transpose / get / set work on
    a,       \* left operand of add / sub / matmul
    b,       \* right operand of add / sub / matmul
    dest,    \* destination of matmul_into
    pc,      \* position of the running call
    loc,     \* the running call's local variables
    path,    \* the operation last called; for matrix_transpose the path it took
    calls,   \* number of calls that have returned
    acc,     \* buffer accesses of the running / last call: cells read, writes in order
    pre,     \* the state a call started from (transpose: the first call)
    ret      \* the last call's outcome: status, matrix returned, double returned

vars == <<ndebug, heap, m, a, b, dest, pc, loc, path, calls, acc, pre, ret>>

(***************************************************************************)
(* Bounds of the model                                                     *)
(***************************************************************************)
MaxDim == 8      \* heights and widths 0..MaxDim of the matrices transposed
MaxCalls == 2    \* calls of matrix_transpose in a row
Window == 2      \* cells kept of a buffer too large to enumerate

(***************************************************************************)
(* Program constants                                                       *)
(***************************************************************************)
SizeBytes == 8   \* sizeof(size_t)
IntBytes == 4    \* sizeof(int)
WordBits == 64   \* bits of a uint64_t
InlineMax == 64  \* matrix_len(m) <= 64 selects the inline-word path
NULL == 0

(***************************************************************************)
(* size_t and int arithmetic on bytes                                      *)
(***************************************************************************)
RECURSIVE ByteOf(_, _)
ByteOf(n, k) == IF k = 1 THEN n % 256 ELSE ByteOf(n \div 256, k - 1)

\* the size_t holding the natural n
SzOf(n) == [k \in 1..SizeBytes |-> ByteOf(n, k)]

\* x < 2^31: x can be used as a natural of the model
SzFits(x) == \A k \in 1..SizeBytes : (k > 4 => x[k] = 0) /\ (k = 4 => x[k] < 128)

RECURSIVE SzVal(_, _)
SzVal(x, k) == IF k > 4 THEN 0 ELSE x[k] + 256 * SzVal(x, k + 1)

\* the natural held by x, for x with SzFits(x)
SzNat(x) == SzVal(x, 1)

SzLtNat(x, n) == SzFits(x) /\ SzNat(x) < n
SzLeNat(x, n) == SzFits(x) /\ SzNat(x) <= n
SzEqNat(x, n) == SzFits(x) /\ SzNat(x) = n
NatLtSz(n, x) == ~SzFits(x) \/ n < SzNat(x)

RECURSIVE Conv(_, _, _, _)
Conv(x, y, k, i) == IF i > k THEN 0 ELSE x[i] * y[k + 1 - i] + Conv(x, y, k, i + 1)

RECURSIVE MulCarry(_, _, _)
MulCarry(x, y, k) ==
    IF k = 0 THEN 0 ELSE (Conv(x, y, k, 1) + MulCarry(x, y, k - 1)) \div 256

\* x * y in size_t: the product modulo 2^(8*SizeBytes)
SzMul(x, y) ==
    [k \in 1..SizeBytes |-> (Conv(x, y, k, 1) + MulCarry(x, y, k - 1)) % 256]

\* x - 1 in size_t: 0 - 1 wraps to SIZE_MAX
SzDec(x) ==
    [k \in 1..SizeBytes |->
        IF \A j \in 1..(k - 1) : x[j] = 0 THEN (x[k] + 255) % 256 ELSE x[k]]

\* x + 1 in size_t
SzInc(x) ==
    [k \in 1..SizeBytes |->
        IF \A j \in 1..(k - 1) : x[j] = 255 THEN (x[k] + 1) % 256 ELSE x[k]]

RECURSIVE ModFrom(_, _, _)
ModFrom(x, d, k) ==
    IF k > SizeBytes THEN 0 ELSE (ModFrom(x, d, k + 1) * 256 + x[k]) % d

\* x % d for a size_t x and a natural d in 1..2^22
SzModNat(x, d) == ModFrom(x, d, 1)

\* int temp = x: the conversion keeps the low IntBytes bytes (gcc: modulo 2^32)
ToInt(x) == [k \in 1..IntBytes |-> x[k]]

\* size_t field = temp: the int is sign-extended to SizeBytes bytes
FromInt(t) ==
    [k \in 1..SizeBytes |->
        IF k <= IntBytes THEN t[k] ELSE IF t[IntBytes] >= 128 THEN 255 ELSE 0]

(***************************************************************************)
(* The matrix struct and its buffer                                        *)
(***************************************************************************)
Matrix(h, w, p) == [height |-> h, width |-> w, values |-> p]

NoMatrix == Matrix(SzOf(0), SzOf(0), NULL)

matrix_len(mm) == SzMul(mm.height, mm.width)

\* cells of a buffer of len elements that the model holds
Modelled(len) == IF SzLtNat(len, 65536) THEN SzNat(len) ELSE Window

Cells(p) == heap[p]

\* the cells read, the indices written in the order of the writes, and the
\* indices at which the cycle paths began a cycle, in order
NoAccess == [reads |-> {}, wlog |-> <<>>, starts |-> <<>>]

NoLocals ==
    [i |-> 0, j |-> 0, cycle_begin |-> 0, next |-> 0, temp |-> 0, size |-> 0,
     swapped_set |-> {}, bitset |-> <<>>, row |-> 0, col |-> 0, value |-> 0]

NoCall == [status |-> "none", m |-> NoMatrix, d |-> 0]
Returned == [status |-> "ok", m |-> NoMatrix, d |-> 0]
Aborted == [status |-> "aborted", m |-> NoMatrix, d |-> 0]


(***************************************************************************)
(* Element access (matrix_get / matrix_set)                                *)
(***************************************************************************)
\* mutant of matrix_index: the row is scaled by the height
matrix_index_height(mm, row, col) == row * SzNat(mm.height) + col

\* row * m->width + col
matrix_index(mm, row, col) == row * SzNat(mm.width) + col

\* the three assertions of matrix_get and of matrix_set
matrix_inbounds(mm, row, col) ==
    /\ mm.values # NULL
    /\ NatLtSz(row, mm.height)
    /\ NatLtSz(col, mm.width)

(***************************************************************************)
(* Bit tracking helpers of the in-place transpose                          *)
(* A uint64_t is the set of its one bits; setting a bit whose index is     *)
(* WordBits or more is a shift by at least the width: undefined.           *)
(***************************************************************************)
matrix__set_bit(number, idx) == number \cup {idx}

matrix__has_bit(number, idx) == idx \in number

matrix__bitset_set(bitset, idx) ==
    [bitset EXCEPT ![idx \div WordBits] = @ \cup {idx % WordBits}]

matrix__bitset_has(bitset, idx) == (idx % WordBits) \in bitset[idx \div WordBits]

\* mutant of NextIndex: the index is scaled by height + 1
NextIndex_skewed(i, height, size) == SzModNat(SzMul(SzOf(i), SzInc(height)), size)

\* next = (i * m->height) % size, the product taken in size_t
NextIndex(i, height, size) == SzModNat(SzMul(SzOf(i), height), size)

\* for (i = 1; i < size && matrix__has_bit(swapped_set, i); ++i);
RECURSIVE SmallFindCycle(_, _, _)
SmallFindCycle(swapped_set, size, i) ==
    IF i < size /\ matrix__has_bit(swapped_set, i)
    THEN SmallFindCycle(swapped_set, size, i + 1)
    ELSE i

\* for (i = 1; i < size && matrix__bitset_has(bitset, i); ++i);
RECURSIVE RectFindCycle(_, _, _)
RectFindCycle(bitset, size, i) ==
    IF i < size /\ matrix__bitset_has(bitset, i)
    THEN RectFindCycle(bitset, size, i + 1)
    ELSE i

\* i = m->height; m->height = m->width; m->width = i;   (i is a size_t)
SwapDims(mm) == [mm EXCEPT !.height = mm.width, !.width = mm.height]

\* int temp = m->height; m->height = m->width; m->width = temp;
matrix__transpose_single_col_or_row(mm) ==
    LET temp == ToInt(mm.height)
    IN  [mm EXCEPT !.height = mm.width, !.width = FromInt(temp)]

(***************************************************************************)
(* matrix_transpose: the dispatch and its four paths                       *)
(***************************************************************************)
\* mutant of IsVector: only the width is compared with 1
IsVector_width(mm) == SzEqNat(mm.width, 1)

IsVector(mm) == SzEqNat(mm.width, 1) \/ SzEqNat(mm.height, 1)
IsSquare(mm) == mm.width = mm.height
IsInline(mm) == SzLeNat(matrix_len(mm), InlineMax)

Idle == pc = "idle" /\ calls < MaxCalls /\ m.values # NULL

Untouched == UNCHANGED <<ndebug, a, b, dest, pre>>

Return ==
    /\ pc' = "idle"
    /\ calls' = calls + 1
    /\ ret' = Returned

\* assert(c) failing: abort() in the build with assertions; with NDEBUG the
\* statement vanishes and the caller names what follows
Abort ==
    /\ pc' = "aborted"
    /\ ret' = Aborted
    /\ UNCHANGED calls

TransposeVector ==
    /\ Idle
    /\ IsVector(m)
    /\ m' = matrix__transpose_single_col_or_row(m)
    /\ path' = "vector"
    /\ acc' = NoAccess
    /\ loc' = NoLocals
    /\ Return
    /\ UNCHANGED heap
    /\ Untouched

EnterSquare ==
    /\ Idle
    /\ ~IsVector(m)
    /\ IsSquare(m)
    /\ path' = "square"
    /\ acc' = NoAccess
    /\ IF NatLtSz(0, SzDec(m.height)) /\ NatLtSz(1, m.height)
       THEN /\ loc' = [NoLocals EXCEPT !.i = 0, !.j = 1]
            /\ pc' = "sq"
            /\ UNCHANGED <<calls, ret>>
       ELSE \* no (i, j) with i < height - 1 and i < j < height: no body runs
            /\ loc' = NoLocals
            /\ Return
    /\ UNCHANGED <<heap, m>>
    /\ Untouched

\* one execution of the inner loop's body, then the two loop headers
SquareStep ==
    /\ pc = "sq"
    /\ LET i == loc.i
           j == loc.j
           ij == matrix_index(m, i, j)
           ji == matrix_index(m, j, i)
           c == Cells(m.values)
       IN  IF matrix_inbounds(m, i, j) /\ matrix_inbounds(m, j, i)
           THEN /\ heap' = [heap EXCEPT ![m.values] = [c EXCEPT ![ij] = c[ji], ![ji] = c[ij]]]
                /\ acc' = [acc EXCEPT !.reads = @ \cup {ij, ji}, !.wlog = @ \o <<ij, ji>>]
                /\ IF NatLtSz(j + 1, m.height)
                   THEN /\ loc' = [loc EXCEPT !.j = j + 1, !.temp = c[ij]]
                        /\ UNCHANGED <<pc, calls, ret>>
                   ELSE IF NatLtSz(i + 1, SzDec(m.height))
                   THEN /\ loc' = [loc EXCEPT !.i = i + 1, !.j = i + 2, !.temp = c[ij]]
                        /\ UNCHANGED <<pc, calls, ret>>
                   ELSE /\ loc' = [loc EXCEPT !.temp = c[ij]]
                        /\ Return
           ELSE /\ Abort
                /\ UNCHANGED <<heap, acc, loc>>
    /\ UNCHANGED <<m, path>>
    /\ Untouched

EnterSmall ==
    /\ Idle
    /\ ~IsVector(m)
    /\ ~IsSquare(m)
    /\ IsInline(m)
    /\ path' = "small"
    /\ acc' = NoAccess
    /\ LET size == SzDec(matrix_len(m))
       IN  IF SzLtNat(size, WordBits)
           THEN /\ loc' = [NoLocals EXCEPT
                             !.size = SzNat(size),
                             !.swapped_set =
                                 matrix__set_bit(matrix__set_bit({}, 0), SzNat(size)),
                             !.i = 1]
                /\ pc' = "s_while"
                /\ UNCHANGED <<calls, ret>>
           ELSE \* assert(size < 64) fails
                /\ loc' = NoLocals
                /\ Abort
    /\ UNCHANGED <<heap, m>>
    /\ Untouched

SmallWhile ==
    /\ pc = "s_while"
    /\ loc.i < loc.size
    /\ loc' = [loc EXCEPT !.cycle_begin = loc.i, !.temp = Cells(m.values)[loc.i]]
    /\ acc' = [acc EXCEPT !.reads = @ \cup {loc.i}, !.starts = Append(@, loc.i)]
    /\ pc' = "s_do"
    /\ UNCHANGED <<heap, m, path, calls, ret>>
    /\ Untouched

SmallDo ==
    /\ pc = "s_do"
    /\ LET next == NextIndex(loc.i, m.height, loc.size)
           c == Cells(m.values)
       IN  /\ heap' = [heap EXCEPT ![m.values] = [c EXCEPT ![next] = loc.temp]]
           /\ acc' = [acc EXCEPT !.reads = @ \cup {next}, !.wlog = Append(@, next)]
           /\ loc' = [loc EXCEPT
                        !.next = next,
                        !.temp = c[next],
                        !.swapped_set = matrix__set_bit(loc.swapped_set, loc.i),
                        !.i = next]
           /\ pc' = IF next # loc.cycle_begin THEN "s_do" ELSE "s_find"
    /\ UNCHANGED <<m, path, calls, ret>>
    /\ Untouched

SmallFind ==
    /\ pc = "s_find"
    /\ loc' = [loc EXCEPT !.i = SmallFindCycle(loc.swapped_set, loc.size, 1)]
    /\ pc' = "s_while"
    /\ UNCHANGED <<heap, m, path, calls, ret, acc>>
    /\ Untouched

SmallExit ==
    /\ pc = "s_while"
    /\ ~(loc.i < loc.size)
    /\ m' = SwapDims(m)
    /\ Return
    /\ UNCHANGED <<heap, path, acc, loc>>
    /\ Untouched

EnterRect ==
    /\ Idle
    /\ ~IsVector(m)
    /\ ~IsSquare(m)
    /\ ~IsInline(m)
    /\ path' = "rect"
    /\ acc' = NoAccess
    /\ LET size == SzNat(SzDec(matrix_len(m)))
           bitset_sz == (size \div WordBits) + 1
       IN  loc' = [NoLocals EXCEPT
                     !.size = size,
                     !.bitset = [h \in 0..(bitset_sz - 1) |-> {}],
                     !.i = 1]
    /\ pc' = "r_while"
    /\ UNCHANGED <<heap, m, calls, ret>>
    /\ Untouched

RectWhile ==
    /\ pc = "r_while"
    /\ loc.i < loc.size
    /\ loc' = [loc EXCEPT !.cycle_begin = loc.i, !.temp = Cells(m.values)[loc.i]]
    /\ acc' = [acc EXCEPT !.reads = @ \cup {loc.i}, !.starts = Append(@, loc.i)]
    /\ pc' = "r_do"
    /\ UNCHANGED <<heap, m, path, calls, ret>>
    /\ Untouched

RectDo ==
    /\ pc = "r_do"
    /\ LET next == NextIndex(loc.i, m.height, loc.size)
           c == Cells(m.values)
       IN  /\ heap' = [heap EXCEPT ![m.values] = [c EXCEPT ![next] = loc.temp]]
           /\ acc' = [acc EXCEPT !.reads = @ \cup {next}, !.wlog = Append(@, next)]
           /\ loc' = [loc EXCEPT
                        !.next = next,
                        !.temp = c[next],
                        !.bitset = matrix__bitset_set(loc.bitset, loc.i),
                        !.i = next]
           /\ pc' = IF next # loc.cycle_begin THEN "r_do" ELSE "r_find"
    /\ UNCHANGED <<m, path, calls, ret>>
    /\ Untouched

RectFind ==
    /\ pc = "r_find"
    /\ loc' = [loc EXCEPT !.i = RectFindCycle(loc.bitset, loc.size, 1)]
    /\ pc' = "r_while"
    /\ UNCHANGED <<heap, m, path, calls, ret, acc>>
    /\ Untouched

RectExit ==
    /\ pc = "r_while"
    /\ ~(loc.i < loc.size)
    /\ m' = SwapDims(m)
    /\ Return
    /\ UNCHANGED <<heap, path, acc, loc>>
    /\ Untouched

(***************************************************************************)
(* Matrices transposed by the model                                        *)
(***************************************************************************)
\* shapes beyond MaxDim: the 64-element boundary of the inline-word path and
\* rectangles of more than 64 elements (16 x 8 is the test suite's)
ExtraShapes ==
    {<<2, 32>>, <<32, 2>>, <<4, 16>>, <<5, 13>>, <<13, 5>>, <<3, 22>>, <<16, 8>>}

\* heights of row and column vectors whose length does not fit an int
\* 2^31 - 1, 2^31, 2^31 + 1, 2^32 - 1, 2^32, 2^32 + 5, 3 * 2^31, 2^40
HugeLengths ==
    {<<255, 255, 255, 127, 0, 0, 0, 0>>,
     <<0, 0, 0, 128, 0, 0, 0, 0>>,
     <<1, 0, 0, 128, 0, 0, 0, 0>>,
     <<255, 255, 255, 255, 0, 0, 0, 0>>,
     <<0, 0, 0, 0, 1, 0, 0, 0>>,
     <<5, 0, 0, 0, 1, 0, 0, 0>>,
     <<0, 0, 0, 128, 1, 0, 0, 0>>,
     <<0, 0, 0, 0, 0, 1, 0, 0>>}

TransposeShapes ==
    {<<SzOf(h), SzOf(w)>> : h \in 0..MaxDim, w \in 0..MaxDim}
    \cup {<<SzOf(s[1]), SzOf(s[2])>> : s \in ExtraShapes}
    \cup {<<x, SzOf(1)>> : x \in HugeLengths}
    \cup {<<SzOf(1), x>> : x \in HugeLengths}

\* a buffer whose cell k holds the value k + 1: the transpose only moves
\* values, so distinct values are the general content
Labelled(n) == [k \in 0..(n - 1) |-> k + 1]

Init ==
    /\ ndebug = FALSE
    /\ \E s \in TransposeShapes :
          /\ m = Matrix(s[1], s[2], 1)
          /\ heap = [p \in {1} |-> Labelled(Modelled(SzMul(s[1], s[2])))]
    /\ a = NoMatrix
    /\ b = NoMatrix
    /\ dest = NoMatrix
    /\ pc = "idle"
    /\ loc = NoLocals
    /\ path = "none"
    /\ calls = 0
    /\ acc = NoAccess
    /\ pre = [m |-> m, cells |-> heap[1]]
    /\ ret = NoCall

Next ==
    \/ TransposeVector
    \/ EnterSquare
    \/ SquareStep
    \/ EnterSmall
    \/ SmallWhile
    \/ SmallDo
    \/ SmallFind
    \/ SmallExit
    \/ EnterRect
    \/ RectWhile
    \/ RectDo
    \/ RectFind
    \/ RectExit

Spec == Init /\ [][Next]_vars


(***************************************************************************)
(* matrix_transposed: the out-of-place reference of the earlier revision   *)
(* of matrix.h.  The loops store cell (row, col) of m at (col, row) of a   *)
(* new width x height matrix; cell k of the result is (k / H, k % H).      *)
(***************************************************************************)
DivNatSz(k, x) == IF SzFits(x) THEN k \div SzNat(x) ELSE 0
ModNatSz(k, x) == IF SzFits(x) THEN k % SzNat(x) ELSE k
MulNatSz(n, x) == IF n = 0 THEN 0 ELSE n * SzNat(x)

matrix_transposed(mm, cells) ==
    [height |-> mm.width,
     width |-> mm.height,
     cells |-> [k \in DOMAIN cells |->
                   cells[MulNatSz(ModNatSz(k, mm.height), mm.width)
                         + DivNatSz(k, mm.height)]]]

(***************************************************************************)
(* Claims about matrix_transpose                                           *)
(***************************************************************************)
AfterCalls(n) == pc = "idle" /\ calls = n

\* the dimensions are values an int holds unchanged (below 2^31)
IntSized(mm) == SzFits(mm.height) /\ SzFits(mm.width)

IsReference ==
    LET r == matrix_transposed(pre.m, pre.cells)
    IN  /\ m.height = r.height
        /\ m.width = r.width
        /\ Cells(m.values) = r.cells

\* C1: for every matrix with height >= 1 and width >= 1, after
\* matrix_transpose the matrix has the swapped dimensions and cell (c, r)
\* holds what cell (r, c) held: the result of matrix_transposed.
C1_TransposeIsReference ==
    (AfterCalls(1) /\ NatLtSz(0, pre.m.height) /\ NatLtSz(0, pre.m.width))
        => IsReference

\* C1, restricted to the dimensions an int holds: the part of the claim the
\* code does satisfy.
C1_TransposeIsReferenceIntSized ==
    (AfterCalls(1) /\ IntSized(pre.m)) => IsReference

\* C2: two calls of matrix_transpose in a row leave height, width and every
\* buffer element as before the first call.
C2_TransposeInvolution ==
    AfterCalls(2) => (m = pre.m /\ Cells(m.values) = pre.cells)

\* C2, restricted to the dimensions an int holds.
C2_TransposeInvolutionIntSized ==
    (AfterCalls(2) /\ IntSized(pre.m)) => (m = pre.m /\ Cells(m.values) = pre.cells)

\* C3: matrix_transpose always completes: a call that has started can take
\* a step until it returns (it is never stopped by an assertion).
C3_TransposeCompletes == pc # "idle" => ENABLED Next

\* C3, for matrices without a zero dimension: the call is never stopped.
C3_TransposeCompletesNonEmpty ==
    (NatLtSz(0, pre.m.height) /\ NatLtSz(0, pre.m.width))
        => (pc # "idle" => ENABLED Next)

\* C4: the assertion size < 64 of the inline-word path never fails when the
\* path is reached through matrix_transpose, and a matrix of more than 64
\* elements is routed to the dynamically sized path.
C4_InlineAssertHolds ==
    /\ path = "small" => (pc # "aborted" /\ loc.size < WordBits)
    /\ (pc # "idle" /\ ~IsVector(m) /\ ~IsSquare(m) /\ ~IsInline(m)) => path = "rect"

\* C5: for a matrix with width == 1 or height == 1, whatever the values of
\* height and width, matrix_transpose ends with height = old width and
\* width = old height, and touches no buffer element.
C5_VectorSwapsExactly ==
    [][(pc = "idle" /\ IsVector(m) /\ pc' = "idle" /\ calls' = calls + 1)
         => (/\ m'.height = m.width
             /\ m'.width = m.height
             /\ heap' = heap
             /\ acc' = NoAccess)]_vars

\* C5, restricted to the dimensions an int holds.
C5_VectorSwapsExactlyIntSized ==
    [][(pc = "idle" /\ IsVector(m) /\ IntSized(m) /\ pc' = "idle" /\ calls' = calls + 1)
         => (/\ m'.height = m.width
             /\ m'.width = m.height
             /\ heap' = heap
             /\ acc' = NoAccess)]_vars


(***************************************************************************)
(* Elementwise matrix_add / matrix_sub                                     *)
(***************************************************************************)
MaxArithDim == 3   \* heights and widths 0..MaxArithDim of the operands
Seeds == {0, 1}    \* cell contents are drawn from these fillings
MaxOps == 2        \* calls in a row

\* a buffer of n cells, filled from seed s with values in -3..3
Filled(n, s) == [k \in 0..(n - 1) |-> (((k + 1) * (s + 2)) % 7) - 3]

\* mutant of SameShape: compares the element counts only
SameShape_count(x, y) == matrix_len(x) = matrix_len(y)

\* assert(a->height == b->height); assert(a->width == b->width);
SameShape(x, y) == x.height = y.height /\ x.width = y.width

\* a->values[i] += b->values[i]
add_cell(x, y) == x + y

\* mutant of sub_cell: the addition copied from matrix_add
sub_cell_plus(x, y) == x + y

\* a->values[i] -= b->values[i]
sub_cell(x, y) == x - y

\* for (size_t i = 0; i < end; ++i) a->values[i] += b->values[i];
RECURSIVE matrix_add_loop(_, _, _, _, _)
matrix_add_loop(h, pa, pb, i, end) ==
    IF i < end
    THEN matrix_add_loop([h EXCEPT ![pa][i] = add_cell(h[pa][i], h[pb][i])],
                         pa, pb, i + 1, end)
    ELSE h

\* for (size_t i = 0; i < end; ++i) a->values[i] -= b->values[i];
RECURSIVE matrix_sub_loop(_, _, _, _, _)
matrix_sub_loop(h, pa, pb, i, end) ==
    IF i < end
    THEN matrix_sub_loop([h EXCEPT ![pa][i] = sub_cell(h[pa][i], h[pb][i])],
                         pa, pb, i + 1, end)
    ELSE h

\* the cells 0..end-1 written in order
WriteAll(end) == [reads |-> 0..(end - 1), wlog |-> [k \in 1..end |-> k - 1]]

ArithChecks == a.values # NULL /\ b.values # NULL /\ SameShape(a, b)

matrix_add ==
    /\ pc = "idle"
    /\ calls < MaxOps
    /\ path' = "add"
    /\ pre' = [a |-> a, b |-> b, heap |-> heap]
    /\ IF ArithChecks
       THEN LET end == SzNat(matrix_len(a))
            IN  /\ heap' = matrix_add_loop(heap, a.values, b.values, 0, end)
                /\ acc' = WriteAll(end)
                /\ Return
       ELSE /\ Abort
            /\ acc' = NoAccess
            /\ UNCHANGED heap
    /\ UNCHANGED <<ndebug, m, a, b, dest, loc>>

matrix_sub ==
    /\ pc = "idle"
    /\ calls < MaxOps
    /\ path' = "sub"
    /\ pre' = [a |-> a, b |-> b, heap |-> heap]
    /\ IF ArithChecks
       THEN LET end == SzNat(matrix_len(a))
            IN  /\ heap' = matrix_sub_loop(heap, a.values, b.values, 0, end)
                /\ acc' = WriteAll(end)
                /\ Return
       ELSE /\ Abort
            /\ acc' = NoAccess
            /\ UNCHANGED heap
    /\ UNCHANGED <<ndebug, m, a, b, dest, loc>>

ArithDims == 0..MaxArithDim

\* a and b are two matrices with buffers of their own, or b is a itself
\* (matrix_add(&x, &x))
InitArith ==
    /\ ndebug = FALSE
    /\ \E ha \in ArithDims, wa \in ArithDims, sa \in Seeds :
          /\ a = Matrix(SzOf(ha), SzOf(wa), 1)
          /\ \/ \E hb \in ArithDims, wb \in ArithDims, sb \in Seeds :
                   /\ b = Matrix(SzOf(hb), SzOf(wb), 2)
                   /\ heap = <<Filled(ha * wa, sa), Filled(hb * wb, sb + 1)>>
             \/ /\ b = a
                /\ heap = <<Filled(ha * wa, sa)>>
    /\ m = NoMatrix
    /\ dest = NoMatrix
    /\ pc = "idle"
    /\ loc = NoLocals
    /\ path = "none"
    /\ calls = 0
    /\ acc = NoAccess
    /\ pre = [a |-> a, b |-> b, heap |-> heap]
    /\ ret = NoCall

NextArith == matrix_add \/ matrix_sub

SpecArith == InitArith /\ [][NextArith]_vars

(***************************************************************************)
(* Claims about matrix_add / matrix_sub                                    *)
(***************************************************************************)
ArithCalled == path \in {"add", "sub"}

ShapesDiffer(x, y) == x.height # y.height \/ x.width # y.width

\* C8: matrix_add and matrix_sub fail whenever the heights or the widths
\* differ, also when the element counts are equal, and then no cell of a or
\* b has been modified.
C8_ShapeMismatchFails ==
    (ArithCalled /\ ShapesDiffer(pre.a, pre.b))
        => (/\ ret.status = "aborted"
            /\ pc = "aborted"
            /\ heap = pre.heap
            /\ acc = NoAccess)

\* C8 witness: a call failed on 2x3 against 3x2 (equal element counts)
C8_Witness ==
    /\ ArithCalled
    /\ ret.status = "aborted"
    /\ ShapesDiffer(pre.a, pre.b)
    /\ matrix_len(pre.a) = matrix_len(pre.b)
    /\ SzEqNat(matrix_len(pre.a), 6)

\* the cells of a after the call are Op(old a, b) cell by cell
CellsAre(Op(_, _)) ==
    \A i \in DOMAIN pre.heap[pre.a.values] :
        heap[a.values][i] = Op(pre.heap[pre.a.values][i], pre.heap[pre.b.values][i])

Plus(x, y) == x + y
Minus(x, y) == x - y

\* C9: for same-shape a and b with distinct buffers, matrix_add sets every
\* cell of a to old a + b and matrix_sub to old a - b; the cells of b and
\* the heights and widths are unchanged.
C9_AddSubCellwise ==
    (ArithCalled /\ ~ShapesDiffer(pre.a, pre.b) /\ pre.a.values # pre.b.values)
        => (/\ ret.status = "ok"
            /\ path = "add" => CellsAre(Plus)
            /\ path = "sub" => CellsAre(Minus)
            /\ heap[b.values] = pre.heap[pre.b.values]
            /\ a = pre.a
            /\ b = pre.b)

\* C9 witness: a subtraction on 2x2 operands with distinct buffers returned
\* and changed a cell
C9_Witness ==
    /\ path = "sub"
    /\ ret.status = "ok"
    /\ pre.a.values # pre.b.values
    /\ SzEqNat(pre.a.height, 2)
    /\ SzEqNat(pre.a.width, 2)
    /\ heap[a.values] # pre.heap[pre.a.values]


(***************************************************************************)
(* matrix_new, matrix_matmul, matrix_matmul_into                           *)
(***************************************************************************)
MaxMulDim == 2    \* heights and widths 0..MaxMulDim of a, b and dest
GarbageSeeds == {0, 1}   \* prior contents of a destination, of a new buffer

\* the pointer malloc returns: an address no live buffer has
FreshPtr(h) == Len(h) + 1

\* contents of a buffer nobody has written: n cells of some value
Garbage(n, g) == [k \in 0..(n - 1) |-> 5 + g]

\* mutant of MatmulIntoShapes: the width of dest is not compared
MatmulIntoShapes_nowidth(aa, bb, dd) ==
    /\ aa.width = bb.height
    /\ dd.height = aa.height

\* assert(a->width == b->height); assert(dest->height == a->height);
\* assert(dest->width == b->width);
MatmulIntoShapes(aa, bb, dd) ==
    /\ aa.width = bb.height
    /\ dd.height = aa.height
    /\ dd.width = bb.width

\* mutant of FieldStart: the accumulator keeps what the cell held
FieldStart_keep(old) == old

\* dest->values[field] = 0.0;
FieldStart(old) == 0

\* for (i = 0; i < common_len; ++i)
\*     dest->values[field] += matrix_get(a, row, i) * matrix_get(b, i, col);
\* ok is FALSE when an assertion of matrix_get stopped the loop
RECURSIVE matmul_inner(_, _, _, _, _, _, _)
matmul_inner(h, aa, bb, dd, row, col, i) ==
    IF ~(i < SzNat(aa.width))
    THEN [heap |-> h, ok |-> TRUE]
    ELSE IF ~(matrix_inbounds(aa, row, i) /\ matrix_inbounds(bb, i, col))
    THEN [heap |-> h, ok |-> FALSE]
    ELSE LET field == row * SzNat(dd.width) + col
             x == h[aa.values][matrix_index(aa, row, i)]
             y == h[bb.values][matrix_index(bb, i, col)]
         IN  matmul_inner([h EXCEPT ![dd.values][field] = @ + x * y],
                          aa, bb, dd, row, col, i + 1)

\* the two outer loops, field by field in row-major order:
\* field f is (row, col) = (f / dest->width, f % dest->width)
RECURSIVE matmul_fields(_, _, _, _, _, _)
matmul_fields(h, aa, bb, dd, f, n) ==
    IF ~(f < n)
    THEN [heap |-> h, ok |-> TRUE, written |-> n]
    ELSE LET row == f \div SzNat(dd.width)
             col == f % SzNat(dd.width)
             h0 == [h EXCEPT ![dd.values][f] = FieldStart(@)]
             r == matmul_inner(h0, aa, bb, dd, row, col, 0)
         IN  IF r.ok
             THEN matmul_fields(r.heap, aa, bb, dd, f + 1, n)
             ELSE [heap |-> r.heap, ok |-> FALSE, written |-> f + 1]

\* the body of matrix_matmul_into after its assertions
matmul_into_body(h, aa, bb, dd) ==
    matmul_fields(h, aa, bb, dd, 0, SzNat(matrix_len(dd)))

MulUntouched == UNCHANGED <<ndebug, m, a, b, dest, loc>>

matrix_matmul_into ==
    /\ pc = "idle"
    /\ calls = 0
    /\ path' = "matmul_into"
    /\ pre' = [a |-> a, b |-> b, dest |-> dest, heap |-> heap]
    /\ IF /\ a.values # NULL
          /\ b.values # NULL
          /\ dest.values # NULL
          /\ MatmulIntoShapes(a, b, dest)
       THEN LET r == matmul_into_body(heap, a, b, dest)
            IN  /\ heap' = r.heap
                /\ acc' = WriteAll(r.written)
                /\ IF r.ok THEN Return ELSE Abort
       ELSE /\ Abort
            /\ acc' = NoAccess
            /\ UNCHANGED heap
    /\ MulUntouched

\* matrix_new inside matrix_matmul: malloc may fail, and assert(m.values)
\* then stops the call; otherwise the buffer holds indeterminate values
matrix_matmul ==
    /\ pc = "idle"
    /\ calls = 0
    /\ path' = "matmul"
    /\ pre' = [a |-> a, b |-> b, dest |-> dest, heap |-> heap]
    /\ IF a.values # NULL /\ b.values # NULL /\ a.width = b.height
       THEN \E malloc_ok \in BOOLEAN, g \in GarbageSeeds :
               IF malloc_ok
               THEN LET multiplied == Matrix(a.height, b.width, FreshPtr(heap))
                        n == SzNat(matrix_len(multiplied))
                        r == matmul_into_body(Append(heap, Garbage(n, g)),
                                              a, b, multiplied)
                    IN  /\ heap' = r.heap
                        /\ acc' = WriteAll(r.written)
                        /\ IF r.ok
                           THEN /\ pc' = "idle"
                                /\ calls' = calls + 1
                                /\ ret' = [Returned EXCEPT !.m = multiplied]
                           ELSE Abort
               ELSE /\ Abort
                    /\ acc' = NoAccess
                    /\ UNCHANGED heap
       ELSE /\ Abort
            /\ acc' = NoAccess
            /\ UNCHANGED heap
    /\ MulUntouched

MulDims == 0..MaxMulDim

\* a at pointer 1; b a matrix of its own (pointer 2) or a itself; dest a
\* matrix of its own (pointer 3) with arbitrary prior contents, or a or b
\* passed again as the destination
InitMatmul ==
    /\ ndebug = FALSE
    /\ \E ha \in MulDims, wa \in MulDims, hb \in MulDims, wb \in MulDims,
          hd \in MulDims, wd \in MulDims, sa \in Seeds, g \in GarbageSeeds,
          bsel \in {"own", "a"}, dsel \in {"own", "a", "b"} :
          /\ bsel = "a" => (hb = ha /\ wb = wa)
          /\ dsel = "a" => (hd = ha /\ wd = wa /\ g = 0)
          /\ dsel = "b" => (hd = hb /\ wd = wb /\ g = 0)
          /\ a = Matrix(SzOf(ha), SzOf(wa), 1)
          /\ b = IF bsel = "a" THEN a ELSE Matrix(SzOf(hb), SzOf(wb), 2)
          /\ dest = IF dsel = "a" THEN a
                    ELSE IF dsel = "b" THEN b
                    ELSE Matrix(SzOf(hd), SzOf(wd), 3)
          /\ heap = <<Filled(ha * wa, sa), Filled(hb * wb, sa + 1), Garbage(hd * wd, g)>>
    /\ m = NoMatrix
    /\ pc = "idle"
    /\ loc = NoLocals
    /\ path = "none"
    /\ calls = 0
    /\ acc = NoAccess
    /\ pre = [a |-> a, b |-> b, dest |-> dest, heap |-> heap]
    /\ ret = NoCall

NextMatmul == matrix_matmul \/ matrix_matmul_into

SpecMatmul == InitMatmul /\ [][NextMatmul]_vars


(***************************************************************************)
(* Claims about matrix_matmul / matrix_matmul_into                         *)
(***************************************************************************)
MulCalled == path \in {"matmul", "matmul_into"}

\* the matrix the call produced
Product == IF path = "matmul" THEN ret.m ELSE dest

\* sum over t < k of A[i][t] * B[t][j], A of width k and B of width n
RECURSIVE DotSum(_, _, _, _, _, _, _)
DotSum(A, B, i, j, t, k, n) ==
    IF t = 0 THEN 0
    ELSE DotSum(A, B, i, j, t - 1, k, n) + A[i * k + (t - 1)] * B[(t - 1) * n + j]

IsProduct ==
    LET A == pre.heap[pre.a.values]
        B == pre.heap[pre.b.values]
        k == SzNat(pre.a.width)
        n == SzNat(pre.b.width)
        R == Product
    IN  /\ R.height = pre.a.height
        /\ R.width = pre.b.width
        /\ DOMAIN heap[R.values] = 0..(SzNat(pre.a.height) * n - 1)
        /\ \A f \in DOMAIN heap[R.values] :
              heap[R.values][f] = DotSum(A, B, f \div n, f % n, k, k, n)

\* the destination is a matrix of its own: it is neither a nor b
DestApart == pre.dest.values \notin {pre.a.values, pre.b.values}

C7_MatmulMismatchFails ==
    (/\ MulCalled
     /\ \/ pre.a.width # pre.b.height
        \/ /\ path = "matmul_into"
           /\ (pre.dest.height # pre.a.height \/ pre.dest.width # pre.b.width))
        => (/\ ret.status = "aborted"
            /\ ret.m = NoMatrix
            /\ heap = pre.heap
            /\ acc = NoAccess)

\* C7 witness: matrix_matmul_into failed on a destination of the wrong width
\* while a.width = b.height
C7_Witness ==
    /\ path = "matmul_into"
    /\ ret.status = "aborted"
    /\ pre.a.width = pre.b.height
    /\ pre.dest.height = pre.a.height
    /\ pre.dest.width # pre.b.width


(***************************************************************************)
(* matrix_get / matrix_set as calls, under both build configurations       *)
(* With NDEBUG the three assertions vanish and the access goes to          *)
(* values[row * width + col] whatever row and col are: inside the buffer   *)
(* it reads or writes another cell, outside it the behaviour is undefined. *)
(***************************************************************************)
MaxAccDim == 2     \* heights and widths 0..MaxAccDim; row and col 0..MaxAccDim
MaxAccCalls == 2   \* calls in a row

StoredValues == {9}

Undefined == [status |-> "undefined", m |-> NoMatrix, d |-> 0]

AccUntouched == UNCHANGED <<ndebug, m, a, b, dest>>

\* the access is made: the assertions hold, or were compiled out
Accesses(mm, row, col) == ndebug \/ matrix_inbounds(mm, row, col)

InBuffer(mm, idx) == mm.values # NULL /\ idx \in DOMAIN heap[mm.values]

\* what the caller knows of the matrix: the value it last stored at each
\* (row, col), kept by (row, col) and not by buffer index
Noted(book, mm, row, col, value) ==
    IF <<row, col>> \in DOMAIN book THEN [book EXCEPT ![<<row, col>>] = value] ELSE book

\* the record kept across calls: the heap and struct the call started from,
\* the caller's book, and whether every call so far was in range
CallRecord(row, col, book) ==
    [heap |-> heap, m |-> m, book |-> book,
     inrange |-> pre.inrange /\ NatLtSz(row, m.height) /\ NatLtSz(col, m.width)]

matrix_get ==
    /\ pc = "idle"
    /\ calls < MaxAccCalls
    /\ \E row \in 0..MaxAccDim, col \in 0..MaxAccDim :
          LET idx == matrix_index(m, row, col)
          IN  /\ path' = "get"
              /\ pre' = CallRecord(row, col, pre.book)
              /\ loc' = [NoLocals EXCEPT !.row = row, !.col = col]
              /\ UNCHANGED heap
              /\ IF ~Accesses(m, row, col)
                 THEN /\ Abort
                      /\ acc' = NoAccess
                 ELSE IF InBuffer(m, idx)
                 THEN /\ pc' = "idle"
                      /\ calls' = calls + 1
                      /\ ret' = [Returned EXCEPT !.d = heap[m.values][idx]]
                      /\ acc' = [reads |-> {idx}, wlog |-> <<>>]
                 ELSE /\ pc' = "undefined"
                      /\ ret' = Undefined
                      /\ acc' = [reads |-> {idx}, wlog |-> <<>>]
                      /\ UNCHANGED calls
    /\ AccUntouched

matrix_set ==
    /\ pc = "idle"
    /\ calls < MaxAccCalls
    /\ \E row \in 0..MaxAccDim, col \in 0..MaxAccDim, value \in StoredValues :
          LET idx == matrix_index(m, row, col)
          IN  /\ path' = "set"
              /\ pre' = CallRecord(row, col, Noted(pre.book, m, row, col, value))
              /\ loc' = [NoLocals EXCEPT !.row = row, !.col = col, !.value = value]
              /\ IF ~Accesses(m, row, col)
                 THEN /\ Abort
                      /\ acc' = NoAccess
                      /\ UNCHANGED heap
                 ELSE IF InBuffer(m, idx)
                 THEN /\ Return
                      /\ heap' = [heap EXCEPT ![m.values][idx] = value]
                      /\ acc' = [reads |-> {}, wlog |-> <<idx>>]
                 ELSE /\ pc' = "undefined"
                      /\ ret' = Undefined
                      /\ acc' = [reads |-> {}, wlog |-> <<idx>>]
                      /\ UNCHANGED <<calls, heap>>
    /\ AccUntouched

InitAccess ==
    /\ ndebug \in BOOLEAN
    /\ \E h \in 0..MaxAccDim, w \in 0..MaxAccDim :
          /\ m = Matrix(SzOf(h), SzOf(w), 1)
          /\ heap = <<Labelled(h * w)>>
    /\ a = NoMatrix
    /\ b = NoMatrix
    /\ dest = NoMatrix
    /\ pc = "idle"
    /\ loc = NoLocals
    /\ path = "none"
    /\ calls = 0
    /\ acc = NoAccess
    /\ pre = [heap |-> heap, m |-> m, inrange |-> TRUE,
              book |-> [rc \in (0..(SzNat(m.height) - 1)) \X (0..(SzNat(m.width) - 1))
                          |-> heap[1][rc[1] * SzNat(m.width) + rc[2]]]]
    /\ ret = NoCall

NextAccess == matrix_get \/ matrix_set

SpecAccess == InitAccess /\ [][NextAccess]_vars

(***************************************************************************)
(* Claims about matrix_get / matrix_set                                    *)
(***************************************************************************)
AccessCalled == path \in {"get", "set"}

OutOfBounds == ~NatLtSz(loc.row, m.height) \/ ~NatLtSz(loc.col, m.width)

Refused ==
    /\ ret.status = "aborted"
    /\ acc = NoAccess
    /\ heap = pre.heap

\* C10: matrix_get and matrix_set fail whenever row >= height or col >=
\* width, in every build configuration, and then the buffer is neither read
\* nor written.
C10_OutOfBoundsFails == (AccessCalled /\ OutOfBounds) => Refused

\* C10, in the build with assertions (NDEBUG not defined) only.
C10_OutOfBoundsFailsAsserting == (AccessCalled /\ OutOfBounds /\ ~ndebug) => Refused

\* C11: with every call so far in range, matrix_set(m, row, col, v) writes
\* exactly the cell row * width + col, an index below height * width, and
\* changes no other cell nor the struct; matrix_get(m, row, col) returns the
\* value last stored at (row, col), or the cell's first value if none was,
\* and changes nothing.
C11_SetGetFrame ==
    (AccessCalled /\ pre.inrange)
        => LET W == SzNat(m.width)
               H == SzNat(m.height)
               k == loc.row * W + loc.col
           IN  /\ ret.status = "ok"
               /\ m = pre.m
               /\ k < H * W
               /\ path = "set" =>
                     /\ acc.wlog = <<k>>
                     /\ heap[m.values][k] = loc.value
                     /\ \A j \in DOMAIN heap[m.values] :
                           j # k => heap[m.values][j] = pre.heap[m.values][j]
               /\ path = "get" =>
                     /\ ret.d = pre.book[<<loc.row, loc.col>>]
                     /\ acc.wlog = <<>>
                     /\ heap = pre.heap
               /\ \A rc \in DOMAIN pre.book :
                     heap[m.values][rc[1] * W + rc[2]] = pre.book[rc]

\* C11 witness: in a 2 x 2 matrix, cell (1, 0) was set and the next call
\* read it back
C11_Witness ==
    /\ path = "get"
    /\ calls = 2
    /\ pre.inrange
    /\ SzEqNat(m.height, 2)
    /\ SzEqNat(m.width, 2)
    /\ loc.row = 1
    /\ loc.col = 0
    /\ ret.d \in StoredValues

(***************************************************************************)
(* The life of a matrix: matrix_copy, matrix_del and the operations that   *)
(* work on one matrix in place.  m is the matrix the calls are made on, a  *)
(* is the other matrix of a copy: matrix_add(&m, &a) reads it.             *)
(***************************************************************************)
MaxLifeOps == 2     \* calls in a row of the operations of this section
ScalarArgs == {2}   \* the scalar b of the scalar operations

LifeShapes == {<<1, 3>>, <<2, 2>>, <<2, 3>>, <<5, 13>>}

\* free(p): the buffer is gone, no cell of it can be accessed
Freed == <<>>

LifeRecord == [heap |-> heap, m |-> m, book |-> pre.book, inrange |-> pre.inrange]

LifeUntouched == UNCHANGED <<ndebug, a, b, dest>>

\* pow(x, y) for a natural y
RECURSIVE pow(_, _)
pow(x, y) == IF y = 0 THEN 1 ELSE x * pow(x, y - 1)

\* test.c: double random_linear_func(double x) { return 2.0 * x - 4.0; }
random_linear_func(x) == 2 * x - 4

\* the value the loop body of the call op stores in a cell holding x
cell_result(op, arg, x) ==
    CASE op = "fill_scalar" -> arg
      [] op = "add_scalar" -> x + arg
      [] op = "sub_scalar" -> x - arg
      [] op = "mul_scalar" -> x * arg
      [] op = "pow_scalar" -> pow(x, arg)
      [] op = "map" -> random_linear_func(x)

\* for (size_t i = 0; i < end; ++i) m->values[i] = ...;
EachCell(h, p, end, op, arg) ==
    [h EXCEPT ![p] = [k \in DOMAIN h[p] |->
                         IF k < end THEN cell_result(op, arg, h[p][k]) ELSE h[p][k]]]

\* a call whose loop runs over the buffer of m; asserted is TRUE when the
\* function starts with assert(m && m->values).  Without the assertion a
\* NULL buffer is written at index 0 when the matrix has an element.
CellwiseCall(asserted, op, arg) ==
    /\ pc = "idle"
    /\ calls < MaxLifeOps
    /\ pre' = LifeRecord
    /\ loc' = NoLocals
    /\ LET end == matrix_len(m)
       IN  IF m.values # NULL
           THEN /\ heap' = EachCell(heap, m.values, SzNat(end), op, arg)
                /\ acc' = WriteAll(SzNat(end))
                /\ Return
           ELSE IF asserted
           THEN /\ Abort
                /\ acc' = NoAccess
                /\ UNCHANGED heap
           ELSE IF SzEqNat(end, 0)
           THEN /\ Return
                /\ acc' = NoAccess
                /\ UNCHANGED heap
           ELSE /\ pc' = "undefined"
                /\ ret' = Undefined
                /\ acc' = [reads |-> {}, wlog |-> <<0>>]
                /\ UNCHANGED <<heap, calls>>
    /\ UNCHANGED m
    /\ LifeUntouched

matrix_fill_scalar ==
    /\ path' = "fill_scalar"
    /\ \E value \in StoredValues : CellwiseCall(FALSE, "fill_scalar", value)

matrix_add_scalar ==
    /\ path' = "add_scalar"
    /\ \E y \in ScalarArgs : CellwiseCall(TRUE, "add_scalar", y)

matrix_sub_scalar ==
    /\ path' = "sub_scalar"
    /\ \E y \in ScalarArgs : CellwiseCall(TRUE, "sub_scalar", y)

matrix_mul_scalar ==
    /\ path' = "mul_scalar"
    /\ \E y \in ScalarArgs : CellwiseCall(TRUE, "mul_scalar", y)

matrix_pow_scalar ==
    /\ path' = "pow_scalar"
    /\ \E y \in ScalarArgs : CellwiseCall(TRUE, "pow_scalar", y)

matrix_map ==
    /\ path' = "map"
    /\ CellwiseCall(TRUE, "map", 0)

\* memcpy(dst, src, sizeof(double) * n)
memcpy(h, dst, src, n) ==
    [h EXCEPT ![dst] = [k \in DOMAIN h[dst] |-> IF k < n THEN h[src][k] ELSE h[dst][k]]]

\* mutant of copy_values: the struct is copied, the buffer is shared
copy_values_shallow(mm, h) == mm.values

\* matrix m2 = matrix_new(m->height, m->width): m2.values is a new buffer
copy_values(mm, h) == FreshPtr(h)

\* matrix_copy(&m).  The caller goes on with either matrix: m names the one
\* the following calls are made on, a the other one.
matrix_copy ==
    /\ pc = "idle"
    /\ calls < MaxLifeOps
    /\ a = NoMatrix
    /\ path' = "copy"
    /\ pre' = LifeRecord
    /\ loc' = NoLocals
    /\ IF m.values = NULL
       THEN /\ Abort
            /\ acc' = NoAccess
            /\ UNCHANGED <<heap, m, a>>
       ELSE \E malloc_ok \in BOOLEAN, g \in GarbageSeeds, goes_on_with \in {"m", "m2"} :
               IF malloc_ok
               THEN LET n == SzNat(matrix_len(m))
                        m2 == Matrix(m.height, m.width, copy_values(m, heap))
                        allocated == Append(heap, Garbage(n, g))
                    IN  /\ heap' = memcpy(allocated, m2.values, m.values, n)
                        /\ acc' = [reads |-> 0..(n - 1), wlog |-> <<>>]
                        /\ pc' = "idle"
                        /\ calls' = calls + 1
                        /\ ret' = [Returned EXCEPT !.m = m2]
                        /\ IF goes_on_with = "m"
                           THEN m' = m /\ a' = m2
                           ELSE m' = m2 /\ a' = m
               ELSE /\ Abort
                    /\ acc' = NoAccess
                    /\ UNCHANGED <<heap, m, a>>
    /\ UNCHANGED <<ndebug, b, dest>>

matrix_del ==
    /\ pc = "idle"
    /\ calls < MaxLifeOps
    /\ path' = "del"
    /\ pre' = LifeRecord
    /\ loc' = NoLocals
    /\ acc' = NoAccess
    /\ IF m.values # NULL
       THEN /\ heap' = [heap EXCEPT ![m.values] = Freed]
            /\ m' = [m EXCEPT !.values = NULL]
            /\ Return
       ELSE /\ Abort
            /\ UNCHANGED <<heap, m>>
    /\ LifeUntouched

\* every cell is read through matrix_get(m, row, col) with row < height
\* and col < width; the text goes to the sink
matrix_print ==
    /\ pc = "idle"
    /\ calls < MaxLifeOps
    /\ path' = "print"
    /\ pre' = LifeRecord
    /\ loc' = NoLocals
    /\ IF m.values # NULL
       THEN /\ acc' = [reads |-> 0..(SzNat(matrix_len(m)) - 1), wlog |-> <<>>]
            /\ Return
       ELSE /\ acc' = NoAccess
            /\ Abort
    /\ UNCHANGED <<heap, m>>
    /\ LifeUntouched

\* matrix_add(&m, &a)
matrix_add_other ==
    /\ pc = "idle"
    /\ calls < MaxLifeOps
    /\ path' = "add"
    /\ pre' = LifeRecord
    /\ loc' = NoLocals
    /\ IF m.values # NULL /\ a.values # NULL /\ SameShape(m, a)
       THEN LET end == SzNat(matrix_len(m))
            IN  /\ heap' = matrix_add_loop(heap, m.values, a.values, 0, end)
                /\ acc' = WriteAll(end)
                /\ Return
       ELSE /\ Abort
            /\ acc' = NoAccess
            /\ UNCHANGED heap
    /\ UNCHANGED m
    /\ LifeUntouched

\* matrix_sub(&m, &a)
matrix_sub_other ==
    /\ pc = "idle"
    /\ calls < MaxLifeOps
    /\ path' = "sub"
    /\ pre' = LifeRecord
    /\ loc' = NoLocals
    /\ IF m.values # NULL /\ a.values # NULL /\ SameShape(m, a)
       THEN LET end == SzNat(matrix_len(m))
            IN  /\ heap' = matrix_sub_loop(heap, m.values, a.values, 0, end)
                /\ acc' = WriteAll(end)
                /\ Return
       ELSE /\ Abort
            /\ acc' = NoAccess
            /\ UNCHANGED heap
    /\ UNCHANGED m
    /\ LifeUntouched

\* matrix_transpose on a matrix without a buffer: assert(m && m->values)
TransposeFreed ==
    /\ pc = "idle"
    /\ calls < MaxCalls
    /\ m.values = NULL
    /\ path' = "transpose"
    /\ acc' = NoAccess
    /\ loc' = NoLocals
    /\ Abort
    /\ UNCHANGED <<heap, m>>
    /\ Untouched

InitLife ==
    /\ ndebug = FALSE
    /\ \E s \in LifeShapes :
          /\ m = Matrix(SzOf(s[1]), SzOf(s[2]), 1)
          /\ heap = <<Labelled(s[1] * s[2])>>
    /\ a = NoMatrix
    /\ b = NoMatrix
    /\ dest = NoMatrix
    /\ pc = "idle"
    /\ loc = NoLocals
    /\ path = "none"
    /\ calls = 0
    /\ acc = NoAccess
    /\ pre = [heap |-> heap, m |-> m, book |-> <<>>, inrange |-> TRUE]
    /\ ret = NoCall

NextLife ==
    \/ matrix_copy
    \/ matrix_del
    \/ matrix_print
    \/ matrix_get
    \/ matrix_set
    \/ matrix_fill_scalar
    \/ matrix_add_other
    \/ matrix_sub_other
    \/ matrix_add_scalar
    \/ matrix_sub_scalar
    \/ matrix_mul_scalar
    \/ matrix_pow_scalar
    \/ matrix_map
    \/ TransposeFreed
    \/ Next

SpecLife == InitLife /\ [][NextLife]_vars

(***************************************************************************)
(* Claims about matrix_copy and matrix_del                                 *)
(***************************************************************************)
\* the step is a matrix_copy that returned
Copies == a = NoMatrix /\ a' # NoMatrix

\* C12: matrix_copy returns a matrix of the same height, width and cells in
\* a buffer of its own, and from then on no call made on one of the two
\* matrices (set, fill, add, scalar operations, map, transpose, del) changes
\* the struct or the cells of the other.
C12_CopyIsDeep ==
    [][/\ Copies => /\ ret'.m.height = m.height
                    /\ ret'.m.width = m.width
                    /\ ret'.m.values # m.values
                    /\ heap'[ret'.m.values] = heap[m.values]
                    /\ heap'[m.values] = heap[m.values]
                    /\ a'.values # m'.values
       /\ a # NoMatrix => /\ a' = a
                          /\ heap'[a.values] = heap[a.values]]_vars

\* C12 witness: after a copy of a 2 x 3 matrix, a call has written the
\* matrix the caller went on with, which now differs from the other
C12_Witness ==
    /\ a # NoMatrix
    /\ SzEqNat(a.height, 2)
    /\ SzEqNat(a.width, 3)
    /\ path \in {"set", "fill_scalar", "map", "small"}
    /\ pc = "idle"
    /\ m.values # NULL
    /\ heap[m.values] # heap[a.values]

\* C14: once matrix_del has set m->values to NULL, every later call on m
\* (matrix_del included) is stopped by an assertion with the buffer neither
\* read nor written.
C14_NoUseAfterDel ==
    (m.values = NULL /\ ~(path = "del" /\ ret.status = "ok"))
        => (/\ ret.status = "aborted"
            /\ acc = NoAccess)

\* C14, for the calls other than matrix_fill_scalar
C14_NoUseAfterDelAsserted ==
    (m.values = NULL /\ ~(path = "del" /\ ret.status = "ok") /\ path # "fill_scalar")
        => (/\ ret.status = "aborted"
            /\ acc = NoAccess)

(***************************************************************************)
(* matrix_fill_uniform / matrix_new_uniform and the random source          *)
(* rand() belongs to the C library.  It is modelled by the implementation  *)
(* the C standard gives (7.22.2.2): a static unsigned long next, advanced  *)
(* by every call, from which a value in 0..RAND_MAX is taken; RAND_MAX is  *)
(* 32767 there.  The static lives in the heap at address RandStatic, in a  *)
(* buffer of one cell.  A cell written by the fill holds the exact value   *)
(* a + (r / RAND_MAX) * (b - a) as the fraction num / den.                 *)
(***************************************************************************)
MaxFills == 2       \* calls of the fill in a row
RAND_MAX == 32767
RandStatic == 1     \* the address of rand()'s static state

\* srand(seed) of the runs: 0 and 24884 make the first rand() return 0 and
\* RAND_MAX, 5287 makes the second return RAND_MAX, 420 is the test suite's
RandSeeds == {0, 1, 420, 5287, 24884}

\* (lo, hi) arguments; (1, 1) and (2, 0) are refused by assert(b > a)
UniformRanges == {<<0, 1>>, <<-1, 2>>, <<1, 1>>, <<2, 0>>}

UniformShapes == {<<1, 1>>, <<1, 2>>, <<2, 2>>, <<0, 2>>}

RECURSIVE AddCarry(_, _, _)
AddCarry(x, y, k) ==
    IF k = 0 THEN 0 ELSE (x[k] + y[k] + AddCarry(x, y, k - 1)) \div 256

\* x + y in unsigned long: the sum modulo 2^(8*SizeBytes)
SzAdd(x, y) == [k \in 1..SizeBytes |-> (x[k] + y[k] + AddCarry(x, y, k - 1)) % 256]

\* next = next * 1103515245 + 12345; return (unsigned int)(next / 65536) % 32768;
rand(next) ==
    LET advanced == SzAdd(SzMul(next, SzOf(1103515245)), SzOf(12345))
    IN  [next |-> advanced, value |-> advanced[3] + 256 * (advanced[4] % 128)]

\* len = b - a; r = (double)rand() / (double)RAND_MAX; a + r * len
uniform_cell(lo, hi, r) ==
    [num |-> lo * RAND_MAX + r * (hi - lo), den |-> RAND_MAX]

\* one iteration of the loop: a call of rand(), then the store to values[i]
uniform_iteration(h, ptr, i, lo, hi) ==
    LET drawn == rand(h[RandStatic][0])
    IN  [h EXCEPT ![RandStatic][0] = drawn.next,
                  ![ptr][i] = uniform_cell(lo, hi, drawn.value)]

RECURSIVE uniform_loop(_, _, _, _, _, _)
uniform_loop(h, ptr, i, end, lo, hi) ==
    IF i < end
    THEN uniform_loop(uniform_iteration(h, ptr, i, lo, hi), ptr, i + 1, end, lo, hi)
    ELSE h

\* the body of matrix_fill_uniform on the matrix mm; it has no
\* assert(m && m->values)
fill_uniform_body(mm, lo, hi) ==
    LET end == matrix_len(mm)
    IN  IF ~(hi > lo)
        THEN /\ Abort
             /\ acc' = NoAccess
             /\ UNCHANGED heap
        ELSE IF mm.values # NULL
        THEN /\ heap' = uniform_loop(heap, mm.values, 0, SzNat(end), lo, hi)
             /\ acc' = WriteAll(SzNat(end))
             /\ Return
        ELSE IF SzEqNat(end, 0)
        THEN /\ Return
             /\ acc' = NoAccess
             /\ UNCHANGED heap
        ELSE /\ pc' = "undefined"
             /\ ret' = Undefined
             /\ acc' = [reads |-> {}, wlog |-> <<0>>]
             /\ UNCHANGED <<heap, calls>>

matrix_fill_uniform ==
    /\ pc = "idle"
    /\ calls < MaxFills
    /\ path' = "fill_uniform"
    /\ loc' = NoLocals
    /\ \E range \in UniformRanges :
          /\ pre' = [heap |-> heap, lo |-> range[1], hi |-> range[2]]
          /\ fill_uniform_body(m, range[1], range[2])
    /\ UNCHANGED <<ndebug, m, a, b, dest>>

\* matrix m = matrix_new(height, width); matrix_fill_uniform(&m, a, b); return m;
matrix_new_uniform ==
    /\ pc = "idle"
    /\ calls < MaxFills
    /\ path' = "new_uniform"
    /\ loc' = NoLocals
    /\ \E shape \in UniformShapes, range \in UniformRanges,
          malloc_ok \in BOOLEAN, g \in GarbageSeeds :
          LET lo == range[1]
              hi == range[2]
              new == Matrix(SzOf(shape[1]), SzOf(shape[2]), FreshPtr(heap))
              n == shape[1] * shape[2]
          IN  /\ pre' = [heap |-> heap, lo |-> lo, hi |-> hi]
              /\ IF malloc_ok /\ hi > lo
                 THEN /\ heap' = uniform_loop(Append(heap, Garbage(n, g)),
                                              new.values, 0, n, lo, hi)
                      /\ acc' = WriteAll(n)
                      /\ pc' = "idle"
                      /\ calls' = calls + 1
                      /\ ret' = [Returned EXCEPT !.m = new]
                 ELSE \* assert(m.values) or assert(b > a) fails
                      /\ Abort
                      /\ acc' = NoAccess
                      /\ UNCHANGED heap
    /\ UNCHANGED <<ndebug, m, a, b, dest>>

InitUniform ==
    /\ ndebug = FALSE
    /\ \E seed \in RandSeeds, shape \in UniformShapes :
          /\ m = Matrix(SzOf(shape[1]), SzOf(shape[2]), 2)
          /\ heap = <<[k \in {0} |-> SzOf(seed)], Labelled(shape[1] * shape[2])>>
    /\ a = NoMatrix
    /\ b = NoMatrix
    /\ dest = NoMatrix
    /\ pc = "idle"
    /\ loc = NoLocals
    /\ path = "none"
    /\ calls = 0
    /\ acc = NoAccess
    /\ pre = [heap |-> heap, lo |-> 0, hi |-> 0]
    /\ ret = NoCall

NextUniform == matrix_fill_uniform \/ matrix_new_uniform

SpecUniform == InitUniform /\ [][NextUniform]_vars

(***************************************************************************)
(* Claims about the uniform fill                                           *)
(***************************************************************************)
\* the matrix the last fill wrote
Filling == IF path = "new_uniform" THEN ret.m ELSE m

UniformFilled == path \in {"fill_uniform", "new_uniform"} /\ ret.status = "ok"

\* C13: for a < b, whatever rand() returns in 0..RAND_MAX, every cell v
\* written by matrix_fill_uniform / matrix_new_uniform has a <= v < b.
C13_UniformBelowUpper ==
    UniformFilled =>
        \A k \in DOMAIN heap[Filling.values] :
            LET v == heap[Filling.values][k]
            IN  /\ pre.lo * v.den <= v.num
                /\ v.num < pre.hi * v.den

\* C13 with the upper bound included: a <= v <= b.
C13_UniformWithinClosed ==
    UniformFilled =>
        \A k \in DOMAIN heap[Filling.values] :
            LET v == heap[Filling.values][k]
            IN  /\ pre.lo * v.den <= v.num
                /\ v.num <= pre.hi * v.den

(***************************************************************************)
(* Two threads, each making one call on a matrix of its own: thread 1 on   *)
(* m, thread 2 on a.  The buffers are disjoint; the static state of rand() *)
(* is the one memory cell both can reach.  A step is one iteration of a    *)
(* call's loop; rand() itself is taken as atomic (glibc locks it; the C    *)
(* standard does not even promise that).  Here pc and loc hold one entry   *)
(* per thread.                                                             *)
(***************************************************************************)
Threads == {1, 2}

ThreadShapes == {<<1, 2>>, <<2, 1>>, <<1, 3>>}

ThreadRanges == {<<-1, 2>>}

ThreadMatrix(t) == IF t = 1 THEN m ELSE a

NoThreadCall == [op |-> "none", arg |-> 0, i |-> 0, end |-> 0]

\* the heap after the body of the loop of the call op at index i
iteration(h, ptr, i, op, arg) ==
    IF op = "fill_uniform"
    THEN uniform_iteration(h, ptr, i, arg[1], arg[2])
    ELSE [h EXCEPT ![ptr][i] = cell_result(op, arg, @)]

\* thread t enters the call op with an argument of Args, or runs one
\* iteration of its loop
ThreadCall(t, op, Args) ==
    \/ /\ pc[t] = "idle"
       /\ \E arg \in Args :
             LET end == SzNat(matrix_len(ThreadMatrix(t)))
             IN  /\ loc' = [loc EXCEPT ![t] = [op |-> op, arg |-> arg, i |-> 0, end |-> end]]
                 /\ pc' = [pc EXCEPT ![t] = IF 0 < end THEN "run" ELSE "done"]
                 /\ pre' = [pre EXCEPT !.op[t] = op, !.arg[t] = arg]
       /\ UNCHANGED heap
    \/ /\ pc[t] = "run"
       /\ loc[t].op = op
       /\ heap' = iteration(heap, ThreadMatrix(t).values, loc[t].i, op, loc[t].arg)
       /\ loc' = [loc EXCEPT ![t].i = @ + 1]
       /\ pc' = [pc EXCEPT ![t] = IF loc[t].i + 1 < loc[t].end THEN "run" ELSE "done"]
       /\ UNCHANGED pre

ThreadsUntouched == UNCHANGED <<ndebug, m, a, b, dest, path, calls, acc, ret>>

thread_fill_scalar ==
    /\ ThreadsUntouched
    /\ \E t \in Threads : ThreadCall(t, "fill_scalar", StoredValues)

thread_add_scalar ==
    /\ ThreadsUntouched
    /\ \E t \in Threads : ThreadCall(t, "add_scalar", ScalarArgs)

thread_map ==
    /\ ThreadsUntouched
    /\ \E t \in Threads : ThreadCall(t, "map", {0})

thread_fill_uniform ==
    /\ ThreadsUntouched
    /\ \E t \in Threads : ThreadCall(t, "fill_uniform", ThreadRanges)

InitThreads ==
    /\ ndebug = FALSE
    /\ \E seed \in RandSeeds, s1 \in ThreadShapes, s2 \in ThreadShapes :
          /\ m = Matrix(SzOf(s1[1]), SzOf(s1[2]), 2)
          /\ a = Matrix(SzOf(s2[1]), SzOf(s2[2]), 3)
          /\ heap = <<[k \in {0} |-> SzOf(seed)],
                      Labelled(s1[1] * s1[2]), Labelled(s2[1] * s2[2])>>
    /\ b = NoMatrix
    /\ dest = NoMatrix
    /\ pc = <<"idle", "idle">>
    /\ loc = <<NoThreadCall, NoThreadCall>>
    /\ path = "none"
    /\ calls = 0
    /\ acc = NoAccess
    /\ pre = [heap |-> heap, m |-> m, a |-> a,
              op |-> <<"none", "none">>, arg |-> <<0, 0>>]
    /\ ret = NoCall

NextThreads ==
    \/ thread_fill_scalar
    \/ thread_add_scalar
    \/ thread_map
    \/ thread_fill_uniform

SpecThreads == InitThreads /\ [][NextThreads]_vars

(***************************************************************************)
(* Claims about calls on distinct matrices                                 *)
(***************************************************************************)
\* the heap after the whole call op(mm, arg), run alone from the heap h
RunCall(h, mm, op, arg) ==
    LET n == SzNat(matrix_len(mm))
    IN  IF op = "fill_uniform"
        THEN uniform_loop(h, mm.values, 0, n, arg[1], arg[2])
        ELSE EachCell(h, mm.values, n, op, arg)

\* the two calls one after the other, the call of thread first first
OneAfterTheOther(first) ==
    LET second == 3 - first
        mid == RunCall(pre.heap, ThreadMatrix(first), pre.op[first], pre.arg[first])
    IN  RunCall(mid, ThreadMatrix(second), pre.op[second], pre.arg[second])

BothDone == pc = <<"done", "done">>

SameMatrices(h) ==
    /\ heap[m.values] = h[m.values]
    /\ heap[a.values] = h[a.values]

\* C15: when the two calls have returned, whatever the interleaving of
\* their steps, each matrix has the dimensions it had and the cells it has
\* after running the two calls one after the other.
C15_DistinctMatricesIndependent ==
    BothDone =>
        /\ m = pre.m
        /\ a = pre.a
        /\ SameMatrices(OneAfterTheOther(1)) \/ SameMatrices(OneAfterTheOther(2))

\* C15, when at most one of the two calls is a uniform fill.
C15_IndependentWithoutRand ==
    (BothDone /\ ~(pre.op[1] = "fill_uniform" /\ pre.op[2] = "fill_uniform"))
        => /\ m = pre.m
           /\ a = pre.a
           /\ SameMatrices(OneAfterTheOther(1)) \/ SameMatrices(OneAfterTheOther(2))

(***************************************************************************)
(* size_t arithmetic at full width, for matrices whose indices do not fit  *)
(* the naturals of the model: comparison, increment, the product without   *)
(* wrap-around (2 * SizeBytes bytes) and the remainder by a size_t.        *)
(***************************************************************************)
\* x < y for two values of the same number of bytes, compared from byte k down
RECURSIVE LtFrom(_, _, _)
LtFrom(x, y, k) ==
    IF k = 0 THEN FALSE
    ELSE IF x[k] # y[k] THEN x[k] < y[k]
    ELSE LtFrom(x, y, k - 1)

SzLt(x, y) == LtFrom(x, y, Len(x))

\* x / 64 in size_t
SzDiv64(x) ==
    [k \in 1..SizeBytes |->
        (x[k] \div 64) + 4 * ((IF k < SizeBytes THEN x[k + 1] ELSE 0) % 64)]

\* byte k of x, 0 beyond its width
ByteAt(x, k) == IF k \in DOMAIN x THEN x[k] ELSE 0

RECURSIVE WideConv(_, _, _, _)
WideConv(x, y, k, i) ==
    IF i > k THEN 0 ELSE ByteAt(x, i) * ByteAt(y, k + 1 - i) + WideConv(x, y, k, i + 1)

RECURSIVE WideCarry(_, _, _)
WideCarry(x, y, k) ==
    IF k = 0 THEN 0 ELSE (WideConv(x, y, k, 1) + WideCarry(x, y, k - 1)) \div 256

\* the product of two size_t values as a number of 2 * SizeBytes bytes: the
\* mathematical product
WideMul(x, y) ==
    [k \in 1..(2 * SizeBytes) |-> (WideConv(x, y, k, 1) + WideCarry(x, y, k - 1)) % 256]

\* 2 * r + bit on SizeBytes + 1 bytes
Doubled(r, bit) ==
    [k \in 1..(SizeBytes + 1) |->
        (2 * r[k] + (IF k = 1 THEN bit ELSE r[k - 1] \div 128)) % 256]

RECURSIVE Borrow(_, _, _)
Borrow(x, y, k) ==
    IF k = 0 THEN 0
    ELSE IF x[k] - ByteAt(y, k) - Borrow(x, y, k - 1) < 0 THEN 1 ELSE 0

\* x - y for x >= y
Minus9(x, y) ==
    [k \in 1..(SizeBytes + 1) |-> (x[k] - ByteAt(y, k) - Borrow(x, y, k - 1) + 256) % 256]

\* r reduced below d after a doubling
Reduced(r, d) ==
    IF LtFrom(r, [k \in 1..(SizeBytes + 1) |-> ByteAt(d, k)], SizeBytes + 1)
    THEN r
    ELSE Minus9(r, d)

\* the bytes 1..n of f as a tuple
RECURSIVE Bytes(_, _)
Bytes(f, n) == IF n = 0 THEN <<>> ELSE Append(Bytes(f, n - 1), f[n])

\* TRUE; the comparison makes TLC compute v where it stands
Settled(v) == v = v

\* long division by d, one byte of the dividend: its bits j down to 0
RECURSIVE RemBits(_, _, _, _)
RemBits(byte, d, j, r) ==
    IF j < 0
    THEN r
    ELSE LET step == Bytes(Reduced(Doubled(r, (byte \div (2 ^ j)) % 2), d), SizeBytes + 1)
         IN  IF Settled(step) THEN RemBits(byte, d, j - 1, step) ELSE r

\* long division by d: the bytes k down to 1 of x, r the remainder so far
RECURSIVE RemFrom(_, _, _, _)
RemFrom(x, d, k, r) ==
    IF k = 0
    THEN r
    ELSE LET step == RemBits(x[k], d, 7, r)
         IN  IF Settled(step) THEN RemFrom(x, d, k - 1, step) ELSE r

\* x % d for x of any width and a size_t d # 0
BigMod(x, d) ==
    LET r == RemFrom(Bytes(x, Len(x)), d, Len(x), Bytes(SzOf(0), SizeBytes) \o <<0>>)
    IN  Bytes(r, SizeBytes)

(***************************************************************************)
(* The index map of the two cycle paths, next = (i * m->height) % size,    *)
(* taken alone: the inputs are a shape with height, width >= 2 and one     *)
(* index i of the buffer; the step computes next for i, and for every      *)
(* index 1..size-1 the table on which the do-while loops walk.             *)
(***************************************************************************)
MaxPiDim == 6     \* heights and widths 2..MaxPiDim

InitPi ==
    /\ ndebug = FALSE
    /\ \E h \in 2..MaxPiDim, w \in 2..MaxPiDim :
          /\ m = Matrix(SzOf(h), SzOf(w), 1)
          /\ heap = <<Labelled(h * w)>>
          /\ \E i \in 0..(h * w - 1) : loc = [NoLocals EXCEPT !.i = i, !.size = h * w - 1]
    /\ a = NoMatrix
    /\ b = NoMatrix
    /\ dest = NoMatrix
    /\ pc = "index"
    /\ path = "none"
    /\ calls = 0
    /\ acc = NoAccess
    /\ pre = [m |-> m, cells |-> heap[1]]
    /\ ret = NoCall

\* next = (i * m->height) % size; for the index of the state, and for each
\* index i in [1, size) as entry i of the table
NextOfIndex ==
    /\ pc = "index"
    /\ pc' = "next"
    /\ loc' = [loc EXCEPT !.next = NextIndex(loc.i, m.height, loc.size)]
    /\ acc' = [reads |-> {},
               wlog |-> [i \in 1..(loc.size - 1) |-> NextIndex(i, m.height, loc.size)]]
    /\ UNCHANGED <<ndebug, heap, m, a, b, dest, path, calls, pre, ret>>

NextPi == NextOfIndex

SpecPi == InitPi /\ [][NextPi]_vars

\* C16: for H, W >= 2, N = H * W, size = N - 1, the map i -> (i * H) mod
\* size sends [1, size) one-to-one onto itself, and it is the transpose on
\* flat indices: for i = r * W + c in [1, size) it gives c * H + r, the
\* place where matrix_transposed puts the element of index i; the elements
\* of index 0 and size stay where they are.
C16_PiIsTranspose ==
    pc = "next" =>
        LET H == SzNat(m.height)
            W == SzNat(m.width)
            size == H * W - 1
            i == loc.i
            T == matrix_transposed(pre.m, pre.cells).cells
            pi == acc.wlog
        IN  /\ DOMAIN pi = 1..(size - 1)
            /\ \A j \in DOMAIN pi : pi[j] \in 1..(size - 1)
            /\ \A j, k \in DOMAIN pi : pi[j] = pi[k] => j = k
            /\ \A j \in DOMAIN pi : T[pi[j]] = pre.cells[j]
            /\ (0 < i /\ i < size) =>
                  /\ loc.next = (i % W) * H + (i \div W)
                  /\ loc.next = pi[i]
            /\ i \in {0, size} => T[i] = pre.cells[i]

\* C16 witness: in the 3 x 5 matrix, index 4 = (0, 4) goes to 4 * 3 + 0 = 12
C16_Witness ==
    /\ pc = "next"
    /\ SzEqNat(m.height, 3)
    /\ SzEqNat(m.width, 5)
    /\ loc.i = 4
    /\ loc.next = 12

(***************************************************************************)
(* matrix__transpose_rectangle at full width: the indices i, next, size    *)
(* and cycle_begin are size_t values of SizeBytes bytes, so that matrices  *)
(* of 2^33 elements and the wrap-around of i * m->height are in the model. *)
(* The buffer is kept by the cells written so far: a cell no step wrote    *)
(* holds the label of its index.  The bitset is the set of its one bits,   *)
(* each the pair (word, bit in the word).  The variable length array is    *)
(* taken to fit the stack.                                                 *)
(***************************************************************************)
MaxWideSteps == 64    \* executions of the do-while body followed in a call

\* 5 x 13, 13 x 5; 2^20 x 2^10; 2^32 x 2; (2^32 + 3) x 2; 2^33 x 3
WideShapes ==
    {<<SzOf(5), SzOf(13)>>,
     <<SzOf(13), SzOf(5)>>,
     <<SzOf(1048576), SzOf(1024)>>,
     <<<<0, 0, 0, 0, 1, 0, 0, 0>>, SzOf(2)>>,
     <<<<3, 0, 0, 0, 1, 0, 0, 0>>, SzOf(2)>>,
     <<<<0, 0, 0, 0, 2, 0, 0, 0>>, SzOf(3)>>}

\* m->values[k] of a buffer kept by its written cells
CellAt(buffer, k) == IF k \in DOMAIN buffer THEN buffer[k] ELSE k

\* m->values[k] = value
Stored(buffer, k, value) ==
    [j \in DOMAIN buffer \cup {k} |-> IF j = k THEN value ELSE buffer[j]]

\* h = idx / 64; l = idx % 64: the bit l of the word h of the bitset
BitOf(idx) == <<Bytes(SzDiv64(idx), SizeBytes), SzModNat(idx, WordBits)>>

\* next = (i * m->height) % size, the product taken in size_t
NextIndexWide(i, height, size) == BigMod(SzMul(i, height), size)

\* for (i = 1; i < size && matrix__bitset_has(bitset, i); ++i);
RECURSIVE RectFindCycleWide(_, _, _)
RectFindCycleWide(bitset, size, i) ==
    IF SzLt(i, size) /\ BitOf(i) \in bitset
    THEN RectFindCycleWide(bitset, size, Bytes(SzInc(i), SizeBytes))
    ELSE i

EnterRectWide ==
    /\ Idle
    /\ calls = 0
    /\ ~IsVector(m)
    /\ ~IsSquare(m)
    /\ ~IsInline(m)
    /\ path' = "rect"
    /\ acc' = NoAccess
    /\ loc' = [NoLocals EXCEPT
                 !.size = Bytes(SzDec(matrix_len(m)), SizeBytes),
                 !.bitset = {},
                 !.i = Bytes(SzOf(1), SizeBytes)]
    /\ pc' = "rw_while"
    /\ UNCHANGED <<heap, m, calls, ret>>
    /\ Untouched

RectWhileWide ==
    /\ pc = "rw_while"
    /\ SzLt(loc.i, loc.size)
    /\ loc' = [loc EXCEPT !.cycle_begin = loc.i, !.temp = CellAt(Cells(m.values), loc.i)]
    /\ acc' = [acc EXCEPT !.reads = @ \cup {loc.i}, !.starts = Append(@, loc.i)]
    /\ pc' = "rw_do"
    /\ UNCHANGED <<heap, m, path, calls, ret>>
    /\ Untouched

RectDoWide ==
    /\ pc = "rw_do"
    /\ Len(acc.wlog) < MaxWideSteps
    /\ LET next == NextIndexWide(loc.i, m.height, loc.size)
           c == Cells(m.values)
       IN  /\ heap' = [heap EXCEPT ![m.values] = Stored(c, next, loc.temp)]
           /\ acc' = [acc EXCEPT !.reads = @ \cup {next}, !.wlog = Append(@, next)]
           /\ loc' = [loc EXCEPT
                        !.next = next,
                        !.temp = CellAt(c, next),
                        !.bitset = loc.bitset \cup {BitOf(loc.i)},
                        !.i = next]
           /\ pc' = IF next # loc.cycle_begin THEN "rw_do" ELSE "rw_find"
    /\ UNCHANGED <<m, path, calls, ret>>
    /\ Untouched

RectFindWide ==
    /\ pc = "rw_find"
    /\ loc' = [loc EXCEPT
                 !.i = RectFindCycleWide(loc.bitset, loc.size, Bytes(SzOf(1), SizeBytes))]
    /\ pc' = "rw_while"
    /\ UNCHANGED <<heap, m, path, calls, ret, acc>>
    /\ Untouched

RectExitWide ==
    /\ pc = "rw_while"
    /\ ~SzLt(loc.i, loc.size)
    /\ m' = SwapDims(m)
    /\ Return
    /\ UNCHANGED <<heap, path, acc, loc>>
    /\ Untouched

InitWide ==
    /\ ndebug \in BOOLEAN
    /\ \E s \in WideShapes : m = Matrix(s[1], s[2], 1)
    /\ heap = << <<>> >>
    /\ a = NoMatrix
    /\ b = NoMatrix
    /\ dest = NoMatrix
    /\ pc = "idle"
    /\ loc = NoLocals
    /\ path = "none"
    /\ calls = 0
    /\ acc = NoAccess
    /\ pre = [m |-> m]
    /\ ret = NoCall

NextWide ==
    \/ EnterRectWide
    \/ RectWhileWide
    \/ RectDoWide
    \/ RectFindWide
    \/ RectExitWide

SpecWide == InitWide /\ [][NextWide]_vars

\* 1 <= x < size
InCycleRange(x, size) == SzLt(SzOf(0), x) /\ SzLt(x, size)

\* the bytes above the width of size_t of a product are zero
FitsSizeT(product) == \A k \in (SizeBytes + 1)..(2 * SizeBytes) : product[k] = 0

\* C20: for every index i in [1, N - 1) of a matrix of N elements, the
\* product i * height that the loop forms does not wrap around in size_t, so
\* the next the loop computes is (i * H) mod (N - 1) and lies in [1, N - 1).
C20_ProductNeverWraps ==
    [][(pc = "rw_do" /\ InCycleRange(loc.i, loc.size)) =>
          LET product == WideMul(loc.i, m.height)
          IN  /\ FitsSizeT(product)
              /\ loc'.next = BigMod(product, loc.size)
              /\ InCycleRange(loc'.next, loc.size)]_vars

\* C20, for the matrices whose element count is below 2^32: the product of
\* an index and the height is below 2^64.
C20_NoWrapBelowTwoTo32 ==
    [][(pc = "rw_do" /\ InCycleRange(loc.i, loc.size)
            /\ \A k \in 5..SizeBytes : loc.size[k] = 0) =>
          LET product == WideMul(loc.i, m.height)
          IN  /\ FitsSizeT(product)
              /\ loc'.next = BigMod(product, loc.size)
              /\ InCycleRange(loc'.next, loc.size)]_vars

\* the cycle path has returned
WideDone == pc = "idle" /\ calls = 1 /\ path = "rect"

\* C17: in a run of the cycle path every index in [1, size) is written
\* once and marked once, N - 2 writes in all when the path returns, and
\* buffer[0] and buffer[size] are never written.
C17_EachIndexWrittenOnce ==
    path = "rect" =>
        LET w == acc.wlog
        IN  /\ \A p, q \in DOMAIN w : w[p] = w[q] => p = q
            /\ \A p \in DOMAIN w : InCycleRange(w[p], loc.size)
            /\ Cardinality(loc.bitset) = Len(w)
            /\ WideDone =>
                  /\ SzOf(Len(w) + 1) = loc.size
                  /\ \A p \in DOMAIN w : BitOf(w[p]) \in loc.bitset

\* C17, for the matrices whose element count is below 2^32.
C17_OnceBelowTwoTo32 ==
    (path = "rect" /\ \A k \in 5..SizeBytes : loc.size[k] = 0) =>
        LET w == acc.wlog
        IN  /\ \A p, q \in DOMAIN w : w[p] = w[q] => p = q
            /\ \A p \in DOMAIN w : InCycleRange(w[p], loc.size)
            /\ Cardinality(loc.bitset) = Len(w)
            /\ WideDone =>
                  /\ SzOf(Len(w) + 1) = loc.size
                  /\ \A p \in DOMAIN w : BitOf(w[p]) \in loc.bitset

\* C17, in the model of matrix_transpose over the modelled shapes: both
\* cycle paths write every index in [1, size) once, mark it once, and leave
\* the indices 0 and size alone.
C17_OnceModelled ==
    (path \in {"small", "rect"} /\ pc # "aborted") =>
        LET w == acc.wlog
            marked == IF path = "small"
                      THEN loc.swapped_set \ {0, loc.size}
                      ELSE {k \in 0..loc.size : matrix__bitset_has(loc.bitset, k)}
        IN  /\ \A p, q \in DOMAIN w : w[p] = w[q] => p = q
            /\ \A p \in DOMAIN w : 0 < w[p] /\ w[p] < loc.size
            /\ Cardinality(marked) = Len(w)
            /\ pc = "idle" =>
                  /\ Len(w) = loc.size - 1
                  /\ marked = {w[p] : p \in DOMAIN w}

(***************************************************************************)
(* Claims about the marks of the cycle paths                               *)
(***************************************************************************)
\* the first call of matrix_transpose is in a cycle path, or has returned
\* from it
InFirstCycleCall ==
    /\ path \in {"small", "rect"}
    /\ pc # "aborted"
    /\ calls = 0 \/ (calls = 1 /\ pc = "idle")

\* the bit of index k is set in the path's set of marks
Marked(k) ==
    IF path = "small"
    THEN matrix__has_bit(loc.swapped_set, k)
    ELSE matrix__bitset_has(loc.bitset, k)

\* buffer[k] holds the element that the transposition puts at index k
Final(k) == Cells(m.values)[k] = matrix_transposed(pre.m, pre.cells).cells[k]

\* C18: at every point of a cycle path, the bit of an index k is set only
\* if buffer[k] holds its final, transposed value, and the bits of 0 and of
\* size are set from before the first cycle on.
C18_MarkedMeansFinal ==
    InFirstCycleCall =>
        /\ \A k \in 1..(loc.size - 1) : Marked(k) => Final(k)
        /\ Marked(0)
        /\ Marked(loc.size)

\* C18, the start of the cycle in progress left out, and the marks of 0 and
\* size asked of the small path only.
C18_MarkedFinalApartFromStart ==
    InFirstCycleCall =>
        /\ \A k \in 1..(loc.size - 1) :
              (Marked(k) /\ ~(pc \in {"s_do", "r_do"} /\ k = loc.cycle_begin)) => Final(k)
        /\ path = "small" => Marked(0) /\ Marked(loc.size)
        /\ path = "rect" => ~Marked(0) /\ ~Marked(loc.size)

\* C18, in the small path alone, where 0 and size are marked at the entry.
C18_SmallPathMarkedMeansFinal ==
    (InFirstCycleCall /\ path = "small") =>
        /\ \A k \in 1..(loc.size - 1) : Marked(k) => Final(k)
        /\ Marked(0)
        /\ Marked(loc.size)

(***************************************************************************)
(* The two cycle paths called on equal inputs: matrix__transpose_rectangle *)
(* and matrix__transpose_small_rectangle are run one after the other, in   *)
(* either order, each on the matrix and the buffer of the initial state.   *)
(* The second call keeps the first run's accesses and result in pre.       *)
(***************************************************************************)
\* non-vector, non-square shapes of at most 64 elements
PathShapes ==
    {<<2, 3>>, <<3, 2>>, <<2, 4>>, <<3, 5>>, <<6, 4>>, <<7, 9>>, <<4, 16>>, <<2, 32>>,
     <<32, 2>>, <<0, 2>>, <<3, 0>>}

NoRun == [path |-> "none", acc |-> NoAccess, cells |-> <<>>, m |-> NoMatrix]

\* the call in a row with another: the first starts on the initial state,
\* the second on a copy of it, the first run kept in pre
OnEqualInput(callee) ==
    /\ pc = "idle"
    /\ calls <= 1
    /\ path # callee
    /\ path' = callee
    /\ acc' = NoAccess
    /\ m' = pre.m
    /\ heap' = [heap EXCEPT ![pre.m.values] = pre.cells]
    /\ pre' = IF calls = 0
              THEN pre
              ELSE [pre EXCEPT !.run = [path |-> path, acc |-> acc,
                                        cells |-> Cells(m.values), m |-> m]]
    /\ UNCHANGED <<ndebug, a, b, dest>>

\* matrix__transpose_small_rectangle(&m), up to the while loop
CallSmallRectangle ==
    /\ OnEqualInput("small")
    /\ LET size == SzDec(matrix_len(pre.m))
       IN  IF SzLtNat(size, WordBits)
           THEN /\ loc' = [NoLocals EXCEPT
                             !.size = SzNat(size),
                             !.swapped_set =
                                 matrix__set_bit(matrix__set_bit({}, 0), SzNat(size)),
                             !.i = 1]
                /\ pc' = "s_while"
                /\ UNCHANGED <<calls, ret>>
           ELSE \* assert(size < 64) fails
                /\ loc' = NoLocals
                /\ Abort

\* matrix__transpose_rectangle(&m), up to the while loop.  With no element
\* size is SIZE_MAX and bitset_sz 2^58: an array of 2^61 bytes of automatic
\* storage, cleared by memset; no such object exists, the behaviour is
\* undefined.
CallRectangle ==
    /\ OnEqualInput("rect")
    /\ LET size == SzDec(matrix_len(pre.m))
       IN  IF size = SzDec(SzOf(0))
           THEN /\ loc' = NoLocals
                /\ pc' = "undefined"
                /\ ret' = Undefined
                /\ UNCHANGED calls
           ELSE /\ loc' = [NoLocals EXCEPT
                             !.size = SzNat(size),
                             !.bitset = [h \in 0..(SzNat(size) \div WordBits) |-> {}],
                             !.i = 1]
                /\ pc' = "r_while"
                /\ UNCHANGED <<calls, ret>>

InitPaths ==
    /\ ndebug = FALSE
    /\ \E s \in PathShapes :
          /\ m = Matrix(SzOf(s[1]), SzOf(s[2]), 1)
          /\ heap = <<Labelled(s[1] * s[2])>>
    /\ a = NoMatrix
    /\ b = NoMatrix
    /\ dest = NoMatrix
    /\ pc = "idle"
    /\ loc = NoLocals
    /\ path = "none"
    /\ calls = 0
    /\ acc = NoAccess
    /\ pre = [m |-> m, cells |-> heap[1], run |-> NoRun]
    /\ ret = NoCall

NextPaths ==
    \/ CallSmallRectangle
    \/ SmallWhile
    \/ SmallDo
    \/ SmallFind
    \/ SmallExit
    \/ CallRectangle
    \/ RectWhile
    \/ RectDo
    \/ RectFind
    \/ RectExit

SpecPaths == InitPaths /\ [][NextPaths]_vars

\* the run that returned last and the run before it did the same
SameRuns ==
    /\ path # pre.run.path
    /\ acc.starts = pre.run.acc.starts
    /\ acc.wlog = pre.run.acc.wlog
    /\ Cells(m.values) = pre.run.cells
    /\ m = pre.run.m

\* C19: for every non-vector, non-square matrix of at most 64 elements, the
\* small path and the rectangle path run on equal inputs: neither has an
\* outcome the other has not, both begin the same cycles in the same order
\* and make the same writes in the same order, and they end with equal
\* buffers, heights and widths.
C19_PathsAgree ==
    /\ pc # "undefined"
    /\ AfterCalls(2) => SameRuns

\* C19, for the matrices that have an element.
C19_PathsAgreeNonEmpty ==
    matrix_len(pre.m) # SzOf(0) =>
        /\ pc \notin {"undefined", "aborted"}
        /\ AfterCalls(2) => SameRuns

(***************************************************************************)
(* Claims about the dispatch of matrix_transpose                           *)
(***************************************************************************)
\* the path that the order of the tests gives to a height and a width, the
\* element count taken as a number
ChosenFor(height, width) ==
    IF SzEqNat(width, 1) \/ SzEqNat(height, 1) THEN "vector"
    ELSE IF width = height THEN "square"
    ELSE IF SzNat(height) * SzNat(width) <= 64 THEN "small"
    ELSE "rect"

\* the positions inside each path
PositionsOf(p) ==
    CASE p = "vector" -> {}
      [] p = "square" -> {"sq"}
      [] p = "small" -> {"s_while", "s_do", "s_find"}
      [] p = "rect" -> {"r_while", "r_do", "r_find"}
      [] OTHER -> {}

\* C21: a call of matrix_transpose takes the path that the first matching
\* test gives to (height, width): vector when width = 1 or height = 1 (1 x 1
\* included), else square when width = height, else the inline-word path
\* when height * width <= 64, else the dynamically sized path; while the
\* call runs it stays in the positions of that path; and the step that
\* changes height and width moves no element and is the call's last.
C21_DispatchFirstMatch ==
    [][/\ pc = "idle" =>
             /\ path' = ChosenFor(m.height, m.width)
             /\ pc' \in PositionsOf(path') \cup {"idle", "aborted"}
       /\ pc # "idle" =>
             /\ path' = path
             /\ pc \in PositionsOf(path)
             /\ pc' \in PositionsOf(path) \cup {"idle", "aborted"}
       /\ m' # m =>
             /\ heap' = heap
             /\ acc' = IF pc = "idle" THEN NoAccess ELSE acc
             /\ pc' = "idle"
             /\ calls' = calls + 1]_vars

\* C21 witness: the 1 x 1 matrix, which passes the vector test and the
\* square test, has been transposed by the vector path
C21_Witness ==
    /\ AfterCalls(1)
    /\ SzEqNat(pre.m.height, 1)
    /\ SzEqNat(pre.m.width, 1)
    /\ path = "vector"
    /\ ChosenFor(pre.m.height, pre.m.width) = "vector"

====
